---- MODULE Spec2Model ----
(***************************************************************************)
(* Model of the scoring engine of Kina (src/streamlit_app.py):             *)
(* calculate_cognitive_score maps an analysis record to a cognitive score  *)
(* record, generate_pdf_report scores the record and builds the report,    *)
(* lexical_diversity and sentence_complexity measure a transcription.      *)
(*                                                                         *)
(* The app: a rerun of the script of a session reads the recorder and the   *)
(* language box, measures a new recording and analyses it with             *)
(* analyze_audio, whose steps on the files are single actions so that the  *)
(* calls of two sessions interleave.                                       *)
(*                                                                         *)
(* Numbers.  Python floats are modelled by exact arithmetic:               *)
(*   - a Dec is a decimal with twelve fractional digits, the tuple         *)
(*     <<i, f1, f2, f3, f4>> of value i + f1/10^3 + f2/10^6 + f3/10^9 +    *)
(*     f4/10^12 with 0 <= fj < 1000 (i carries the sign);                  *)
(*   - a Q is a rational <<numerator, denominator>>, denominator > 0;      *)
(*   - a value rounded by round(x, 1) is held as an integer number of      *)
(*     tenths, one rounded by round(x, 2) as a number of hundredths.       *)
(* round() of a value lying exactly half way between two results depends   *)
(* on the binary representation error of the float, so the model lets a    *)
(* tie go either way: Round1 and Round2Q give the set of possible results. *)
(***************************************************************************)
EXTENDS Integers, Sequences, FiniteSets, TLC

VARIABLES
    results,    \* the analysis record handed to calculate_cognitive_score
    pc,         \* "ready" before the call, "done" once it has returned,
                \* "raised" once it has raised an exception
    score,      \* the record it returned, or the exception raised (None before)
    locals,     \* its local variables when it returned (None before)
    prev,       \* history: << >> or the previous call as <<[results, score, locals]>>
    pdf,        \* what generate_pdf_report returned (None before)
    text,       \* the transcription handed to the text measures
    metrics,    \* what lexical_diversity and sentence_complexity returned (None before)
    fs,         \* the files: the two temporary files, the recordings, the clock
    run,        \* the analyze_audio call of each session: its frame
    session,    \* st.session_state of the first session
    view,       \* the widgets and the output of its last rerun
    log         \* history: what was measured and analysed last

appvars == <<fs, run, session, view, log>>

\* what a step of analyze_audio cannot touch
elsewhere == <<results, pc, score, locals, prev, pdf, text, metrics,
             session, view, log>>

vars == <<results, pc, score, locals, prev, pdf, text, metrics,
          fs, run, session, view, log>>

None == "none"

(* ------------------------------ bounds --------------------------------- *)

MaxWords == 13
MaxDuration == 4
MaxAvg == 31
MaxConj == 2
PolGrid == 20
PolNear == 1
DivNear == 2
PairGrid == 4
MaxTokens == 3
MaxStamp == 2

(* ------------------------- exact decimals ------------------------------ *)

Norm(x) ==
    LET t5 == x[5]
        t4 == x[4] + (t5 \div 1000)
        t3 == x[3] + (t4 \div 1000)
        t2 == x[2] + (t3 \div 1000)
        t1 == x[1] + (t2 \div 1000)
    IN  <<t1, t2 % 1000, t3 % 1000, t4 % 1000, t5 % 1000>>

DInt(n) == <<n, 0, 0, 0, 0>>

\* u millionths
DMicro(u) == Norm(<<0, 0, u, 0, 0>>)

DAdd(x, y) == Norm([j \in 1..5 |-> x[j] + y[j]])

DSub(x, y) == Norm([j \in 1..5 |-> x[j] - y[j]])

\* x * (m / 1000): the float product x * c for the constant c = m/1000
DMul(x, m) ==
    Norm(<<0, x[1] * m, x[2] * m, x[3] * m, x[4] * m + ((x[5] * m) \div 1000)>>)

DLt(x, y) == \E j \in 1..5 : x[j] < y[j] /\ \A k \in 1..(j - 1) : x[k] = y[k]

DLe(x, y) == x = y \/ DLt(x, y)

DMax(x, y) == IF DLt(x, y) THEN y ELSE x

\* round(x, 1), in tenths
Round1(x) ==
    LET t == 10 * x[1] + (x[2] \div 100)
        rem == <<0, x[2] % 100, x[3], x[4], x[5]>>
        half == <<0, 50, 0, 0, 0>>
    IN  IF DLt(half, rem) THEN {t + 1}
        ELSE IF DLt(rem, half) THEN {t}
        ELSE {t, t + 1}

(* ----------------------------- rationals ------------------------------- *)

QLe(p, q) == p[1] * q[2] <= q[1] * p[2]

QLt(p, q) == p[1] * q[2] < q[1] * p[2]

\* round(q, 2), in hundredths
Round2Q(q) ==
    LET n == 100 * q[1]
        t == n \div q[2]
        r2 == 2 * (n % q[2])
    IN  IF r2 > q[2] THEN {t + 1}
        ELSE IF r2 < q[2] THEN {t}
        ELSE {t, t + 1}

(* --------------------- calculate_cognitive_score ----------------------- *)
(* Units of the analysis record: duration in seconds, total_words and      *)
(* conjunction_count plain integers, diversity_score in millionths,        *)
(* avg_sentence_length in halves, polarity in hundredths.                  *)

\* 1. lexical diversity score, a Dec
diversity_component(diversity_score) ==
    LET d == DMicro(diversity_score)
    IN  IF diversity_score >= 750000 THEN DInt(100)
        ELSE IF diversity_score >= 600000
            THEN DAdd(DInt(60), DMul(DSub(d, DMicro(600000)), 266670))
        ELSE IF diversity_score >= 400000
            THEN DAdd(DInt(30), DMul(DSub(d, DMicro(400000)), 150000))
        ELSE DMax(DInt(0), DMul(d, 75000))

\* total_words / duration if duration > 0 else 0, a Q
\* mutant: without a duration the word count itself is taken as the rate
words_per_second_unguarded(total_words, duration) ==
    IF duration > 0 THEN <<total_words, duration>> ELSE <<total_words, 1>>

words_per_second(total_words, duration) ==
    IF duration > 0 THEN <<total_words, duration>> ELSE <<0, 1>>

\* mutant: the optimal band written 2.0 <= wps < 3.0
fluency_component_open(wps) ==
    IF QLe(<<2, 1>>, wps) /\ QLt(wps, <<3, 1>>) THEN 100
    ELSE IF (QLe(<<3, 2>>, wps) /\ QLt(wps, <<2, 1>>))
            \/ (QLt(<<3, 1>>, wps) /\ QLe(wps, <<7, 2>>)) THEN 80
    ELSE IF (QLe(<<1, 1>>, wps) /\ QLt(wps, <<3, 2>>))
            \/ (QLt(<<7, 2>>, wps) /\ QLe(wps, <<4, 1>>)) THEN 60
    ELSE IF (QLe(<<1, 2>>, wps) /\ QLt(wps, <<1, 1>>))
            \/ (QLt(<<4, 1>>, wps) /\ QLe(wps, <<5, 1>>)) THEN 40
    ELSE 20

\* 2. speech fluency score
fluency_component(wps) ==
    IF QLe(<<2, 1>>, wps) /\ QLe(wps, <<3, 1>>) THEN 100
    ELSE IF (QLe(<<3, 2>>, wps) /\ QLt(wps, <<2, 1>>))
            \/ (QLt(<<3, 1>>, wps) /\ QLe(wps, <<7, 2>>)) THEN 80
    ELSE IF (QLe(<<1, 1>>, wps) /\ QLt(wps, <<3, 2>>))
            \/ (QLt(<<7, 2>>, wps) /\ QLe(wps, <<4, 1>>)) THEN 60
    ELSE IF (QLe(<<1, 2>>, wps) /\ QLt(wps, <<1, 1>>))
            \/ (QLt(<<4, 1>>, wps) /\ QLe(wps, <<5, 1>>)) THEN 40
    ELSE 20

\* mutant: the optimal band without the conjunction test
complexity_component_no_conj(avg, conjunction_count) ==
    IF QLe(<<12, 1>>, avg) /\ QLe(avg, <<20, 1>>) THEN 100
    ELSE IF (QLe(<<8, 1>>, avg) /\ QLt(avg, <<12, 1>>))
            \/ (QLt(<<20, 1>>, avg) /\ QLe(avg, <<25, 1>>)) THEN 80
    ELSE IF (QLe(<<6, 1>>, avg) /\ QLt(avg, <<8, 1>>))
            \/ (QLt(<<25, 1>>, avg) /\ QLe(avg, <<30, 1>>)) THEN 60
    ELSE IF (QLe(<<4, 1>>, avg) /\ QLt(avg, <<6, 1>>))
            \/ QLt(<<30, 1>>, avg) THEN 40
    ELSE 20

\* 3. sentence complexity score; avg is a Q
complexity_component(avg, conjunction_count) ==
    IF QLe(<<12, 1>>, avg) /\ QLe(avg, <<20, 1>>) /\ conjunction_count >= 1 THEN 100
    ELSE IF (QLe(<<8, 1>>, avg) /\ QLt(avg, <<12, 1>>))
            \/ (QLt(<<20, 1>>, avg) /\ QLe(avg, <<25, 1>>)) THEN 80
    ELSE IF (QLe(<<6, 1>>, avg) /\ QLt(avg, <<8, 1>>))
            \/ (QLt(<<25, 1>>, avg) /\ QLe(avg, <<30, 1>>)) THEN 60
    ELSE IF (QLe(<<4, 1>>, avg) /\ QLt(avg, <<6, 1>>))
            \/ QLt(<<30, 1>>, avg) THEN 40
    ELSE 20

\* mutant: the lowest band given 20 like the other components
emotion_component_floor20(pol) ==
    IF QLe(<<-1, 10>>, pol) /\ QLe(pol, <<3, 10>>) THEN 100
    ELSE IF (QLe(<<-3, 10>>, pol) /\ QLt(pol, <<-1, 10>>))
            \/ (QLt(<<3, 10>>, pol) /\ QLe(pol, <<5, 10>>)) THEN 80
    ELSE IF (QLe(<<-5, 10>>, pol) /\ QLt(pol, <<-3, 10>>))
            \/ (QLt(<<5, 10>>, pol) /\ QLe(pol, <<7, 10>>)) THEN 60
    ELSE 20

\* 4. emotional expression score; pol is a Q
emotion_component(pol) ==
    IF QLe(<<-1, 10>>, pol) /\ QLe(pol, <<3, 10>>) THEN 100
    ELSE IF (QLe(<<-3, 10>>, pol) /\ QLt(pol, <<-1, 10>>))
            \/ (QLt(<<3, 10>>, pol) /\ QLe(pol, <<5, 10>>)) THEN 80
    ELSE IF (QLe(<<-5, 10>>, pol) /\ QLt(pol, <<-3, 10>>))
            \/ (QLt(<<5, 10>>, pol) /\ QLe(pol, <<7, 10>>)) THEN 60
    ELSE 40

\* mutant: lexical weight 0.35, the weights no longer sum to 1
weighted_overall_035(dc, fc, cc, ec) ==
    DAdd(DAdd(DAdd(DMul(dc, 350), DMul(DInt(fc), 250)),
              DMul(DInt(cc), 250)),
         DMul(DInt(ec), 200))

\* mutant: the weights of the lexical and the fluency component exchanged
weighted_overall_swapped(dc, fc, cc, ec) ==
    DAdd(DAdd(DAdd(DMul(dc, 250), DMul(DInt(fc), 300)),
              DMul(DInt(cc), 250)),
         DMul(DInt(ec), 200))

\* mutant: the emotion term subtracted
weighted_overall_minus(dc, fc, cc, ec) ==
    DSub(DAdd(DAdd(DMul(dc, 300), DMul(DInt(fc), 250)),
              DMul(DInt(cc), 250)),
         DMul(DInt(ec), 200))

\* the weighted overall score before rounding, a Dec
weighted_overall(dc, fc, cc, ec) ==
    DAdd(DAdd(DAdd(DMul(dc, 300), DMul(DInt(fc), 250)),
              DMul(DInt(cc), 250)),
         DMul(DInt(ec), 200))

\* risk level, colour and description from the overall score before rounding
risk_of(overall) ==
    IF DLe(DInt(80), overall)
        THEN [level |-> "Low Risk", color |-> "green",
              description |-> "Excellent cognitive health indicators"]
    ELSE IF DLe(DInt(65), overall)
        THEN [level |-> "Low-Moderate Risk", color |-> "yellow",
              description |-> "Good cognitive health with minor areas for attention"]
    ELSE IF DLe(DInt(50), overall)
        THEN [level |-> "Moderate Risk", color |-> "orange",
              description |-> "Some cognitive health concerns detected"]
    ELSE [level |-> "Higher Risk", color |-> "red",
          description |-> "Multiple cognitive health indicators suggest consultation recommended"]

\* mutant: the age floored at 40
estimated_cognitive_age_floor40(overall) ==
    LET score_deviation == DSub(DInt(85), overall)
        age_adjustment == DMul(score_deviation, 300)
        baseline_age == DInt(35)
    IN  DMax(DInt(40), DAdd(baseline_age, age_adjustment))

\* mutant: the deviation taken as overall_score - 85
estimated_cognitive_age_flipped(overall) ==
    LET score_deviation == DSub(overall, DInt(85))
        age_adjustment == DMul(score_deviation, 300)
        baseline_age == DInt(35)
    IN  DMax(DInt(20), DAdd(baseline_age, age_adjustment))

\* estimated cognitive age before rounding, a Dec
estimated_cognitive_age(overall) ==
    LET score_deviation == DSub(DInt(85), overall)
        age_adjustment == DMul(score_deviation, 300)
        baseline_age == DInt(35)
    IN  DMax(DInt(20), DAdd(baseline_age, age_adjustment))

\* mutant: the complexity tip appended before the fluency tip
recommendations_of_reordered(dc, fc, cc, ec, wps) ==
    LET r1 == IF DLt(dc, DInt(70)) THEN <<"Expand vocabulary">> ELSE <<>>
        r2 == IF fc < 70
              THEN IF QLt(wps, <<3, 2>>) THEN <<"Practice speaking exercises">>
                   ELSE <<"Practice paced speaking">>
              ELSE <<>>
        r3 == IF cc < 70 THEN <<"Practice varied sentence structures">> ELSE <<>>
        r4 == IF ec < 70 THEN <<"Promote emotional well-being">> ELSE <<>>
        r == r1 \o r3 \o r2 \o r4
    IN  IF r = <<>> THEN <<"Excellent results">> ELSE r

\* mutant: the affirmation appended whether or not a tip was given
recommendations_of_always(dc, fc, cc, ec, wps) ==
    LET r1 == IF DLt(dc, DInt(70)) THEN <<"Expand vocabulary">> ELSE <<>>
        r2 == IF fc < 70
              THEN IF QLt(wps, <<3, 2>>) THEN <<"Practice speaking exercises">>
                   ELSE <<"Practice paced speaking">>
              ELSE <<>>
        r3 == IF cc < 70 THEN <<"Practice varied sentence structures">> ELSE <<>>
        r4 == IF ec < 70 THEN <<"Promote emotional well-being">> ELSE <<>>
        r == r1 \o r2 \o r3 \o r4
    IN  r \o <<"Excellent results">>

\* the recommendations list: one tip for each component below 70, or the
\* affirmation
recommendations_of(dc, fc, cc, ec, wps) ==
    LET r1 == IF DLt(dc, DInt(70)) THEN <<"Expand vocabulary">> ELSE <<>>
        r2 == IF fc < 70
              THEN IF QLt(wps, <<3, 2>>) THEN <<"Practice speaking exercises">>
                   ELSE <<"Practice paced speaking">>
              ELSE <<>>
        r3 == IF cc < 70 THEN <<"Practice varied sentence structures">> ELSE <<>>
        r4 == IF ec < 70 THEN <<"Promote emotional well-being">> ELSE <<>>
        r == r1 \o r2 \o r3 \o r4
    IN  IF r = <<>> THEN <<"Excellent results">> ELSE r

\* the lookups of "Extract metrics", in the order the function makes them
Lookups ==
    << <<"lexical", "diversity_score">>, <<"lexical", "total_words">>,
       <<"complexity", "avg_sentence_length">>,
       <<"complexity", "conjunction_count">>,
       <<"duration">>, <<"sentiment", "polarity">> >>

\* results[path[1]] or results[path[1]][path[2]] finds its key
Found(res, path) ==
    /\ path[1] \in DOMAIN res
    /\ Len(path) = 2 => path[2] \in DOMAIN res[path[1]]

\* the key of the KeyError the first failing lookup raises, None if none fails
key_error(res) ==
    LET failing == {i \in DOMAIN Lookups : ~Found(res, Lookups[i])}
    IN  IF failing = {} THEN None
        ELSE LET i == CHOOSE k \in failing : \A j \in failing : k <= j
                 path == Lookups[i]
             IN  IF path[1] \in DOMAIN res THEN path[2] ELSE path[1]

\* the banner the results view picks for the risk description, from the
\* returned overall_score in tenths
risk_banner(overall_score) ==
    IF overall_score >= 800 THEN "success"
    ELSE IF overall_score >= 650 THEN "info"
    ELSE IF overall_score >= 500 THEN "warning"
    ELSE "error"

\* the local variables of calculate_cognitive_score when it returns
score_locals(res) ==
    LET wps == words_per_second(res.lexical.total_words, res.duration)
        dc == diversity_component(res.lexical.diversity_score)
        fc == fluency_component(wps)
        cc == complexity_component(<<res.complexity.avg_sentence_length, 2>>,
                                   res.complexity.conjunction_count)
        ec == emotion_component(<<res.sentiment.polarity, 100>>)
        overall == weighted_overall(dc, fc, cc, ec)
    IN  [diversity_component |-> dc,
         fluency_component |-> fc,
         complexity_component |-> cc,
         emotion_component |-> ec,
         words_per_second |-> wps,
         overall_score |-> overall,
         risk |-> risk_of(overall),
         estimated_cognitive_age |-> estimated_cognitive_age(overall),
         recommendations |-> recommendations_of(dc, fc, cc, ec, wps)]

\* mutant: speech_fluency and emotional_expression stored under each other's key
score_record_crossed(l) ==
    {[overall_score |-> o,
      cognitive_age |-> a,
      risk_level |-> l.risk.level,
      risk_color |-> l.risk.color,
      risk_description |-> l.risk.description,
      component_scores |->
         [lexical_diversity |-> d,
          speech_fluency |-> 10 * l.emotion_component,
          sentence_complexity |-> 10 * l.complexity_component,
          emotional_expression |-> 10 * l.fluency_component],
      recommendations |-> l.recommendations,
      words_per_second |-> w] :
        o \in Round1(l.overall_score),
        a \in Round1(l.estimated_cognitive_age),
        d \in Round1(l.diversity_component),
        w \in Round2Q(l.words_per_second)}

\* the records the return statement can build from the locals l; rounded values
\* in tenths, words_per_second in hundredths
score_record(l) ==
    {[overall_score |-> o,
      cognitive_age |-> a,
      risk_level |-> l.risk.level,
      risk_color |-> l.risk.color,
      risk_description |-> l.risk.description,
      component_scores |->
         [lexical_diversity |-> d,
          speech_fluency |-> 10 * l.fluency_component,
          sentence_complexity |-> 10 * l.complexity_component,
          emotional_expression |-> 10 * l.emotion_component],
      recommendations |-> l.recommendations,
      words_per_second |-> w] :
        o \in Round1(l.overall_score),
        a \in Round1(l.estimated_cognitive_age),
        d \in Round1(l.diversity_component),
        w \in Round2Q(l.words_per_second)}

\* the records calculate_cognitive_score(res) can return
calculate_cognitive_score(res) == score_record(score_locals(res))

(* --------------------------- text measures ----------------------------- *)

\* A text is a sequence of characters, each a string of length one.
Small == <<"a", "b", "c", "d", "e", "f", "g", "h", "i", "l", "n", "o", "r",
           "s", "t", "u", "w">>
Capital == <<"A", "B", "C", "D", "E", "F", "G", "H", "I", "L", "N", "O", "R",
             "S", "T", "U", "W">>

\* the characters \w matches
WordChars ==
    {Small[k] : k \in DOMAIN Small} \cup {Capital[k] : k \in DOMAIN Capital}
    \cup {"_", "0", "1", "2", "3", "4", "5", "6", "7", "8", "9"}

\* the characters str.strip() removes
Whitespace == {" "}

\* the characters of the class [.!?]
Terminators == {".", "!", "?"}

\* str.lower()
lower(t) ==
    [i \in DOMAIN t |->
        IF \E k \in DOMAIN Capital : Capital[k] = t[i]
        THEN Small[CHOOSE k \in DOMAIN Capital : Capital[k] = t[i]]
        ELSE t[i]]

\* the k-th smallest member of the set of numbers S
Kth(S, k) == CHOOSE x \in S : Cardinality({y \in S : y <= x}) = k

\* re.findall(r'\b\w+\b', t): the maximal runs of word characters, in the
\* order of their first characters
findall_words(t) ==
    LET starts == {i \in DOMAIN t :
                      t[i] \in WordChars /\ (i = 1 \/ t[i - 1] \notin WordChars)}
        end(i) == CHOOSE e \in i..Len(t) :
                      /\ \A j \in i..e : t[j] \in WordChars
                      /\ e = Len(t) \/ t[e + 1] \notin WordChars
    IN  [k \in 1..Cardinality(starts) |->
            SubSeq(t, Kth(starts, k), end(Kth(starts, k)))]

\* re.split(r'[.!?]', t): the pieces before, between and after the terminators
split_sentences(t) ==
    LET cuts == {i \in DOMAIN t : t[i] \in Terminators}
        n == Cardinality(cuts)
        cut(k) == IF k = 0 THEN 0 ELSE IF k > n THEN Len(t) + 1 ELSE Kth(cuts, k)
    IN  [k \in 1..(n + 1) |-> SubSeq(t, cut(k - 1) + 1, cut(k) - 1)]

\* str.strip(): s without its leading and trailing whitespace
strip(s) ==
    LET inked == {i \in DOMAIN s : s[i] \notin Whitespace}
    IN  IF inked = {} THEN <<>>
        ELSE SubSeq(s, CHOOSE i \in inked : \A j \in inked : i <= j,
                       CHOOSE i \in inked : \A j \in inked : j <= i)

RECURSIVE count_from(_, _, _)
\* the occurrences of c in t that str.count finds from position i on: the
\* search resumes behind each occurrence found
count_from(t, c, i) ==
    LET found == {j \in i..(Len(t) - Len(c) + 1) : SubSeq(t, j, j + Len(c) - 1) = c}
    IN  IF found = {} THEN 0
        ELSE 1 + count_from(t, c, Kth(found, 1) + Len(c))

\* t.count(c): the non-overlapping occurrences of c in t
count(t, c) == count_from(t, c, 1)

conjunctions ==
    << <<"a", "n", "d">>, <<"b", "u", "t">>, <<"o", "r">>,
       <<"b", "e", "c", "a", "u", "s", "e">>,
       <<"a", "l", "t", "h", "o", "u", "g", "h">>,
       <<"s", "i", "n", "c", "e">>, <<"w", "h", "i", "l", "e">>,
       <<"i", "f">>, <<"w", "h", "e", "n">>, <<"t", "h", "o", "u", "g", "h">> >>

RECURSIVE sum_counts(_, _)
\* sum(t.count(c) for c in conjunctions[1..k])
sum_counts(t, k) ==
    IF k = 0 THEN 0 ELSE sum_counts(t, k - 1) + count(t, conjunctions[k])

\* mutant: every word counted as a unique word
lexical_diversity_no_set(t) ==
    LET words == findall_words(lower(t))
        total_words == Len(words)
        unique_words == Len(words)
        ratio == IF total_words # 0 THEN <<unique_words, total_words>> ELSE <<0, 1>>
    IN  <<ratio, total_words, unique_words>>

\* mutant: the words taken from the text as it is written
lexical_diversity_cased(t) ==
    LET words == findall_words(t)
        total_words == Len(words)
        unique_words == Cardinality({words[i] : i \in DOMAIN words})
        ratio == IF total_words # 0 THEN <<unique_words, total_words>> ELSE <<0, 1>>
    IN  <<ratio, total_words, unique_words>>

\* lexical_diversity(text): <<score, total_words, unique_words>>, the score
\* (ratio) a Q
lexical_diversity(t) ==
    LET words == findall_words(lower(t))
        total_words == Len(words)
        unique_words == Cardinality({words[i] : i \in DOMAIN words})
        ratio == IF total_words # 0 THEN <<unique_words, total_words>> ELSE <<0, 1>>
    IN  <<ratio, total_words, unique_words>>

\* mutant: the empty segments counted as sentences
sentence_complexity_unfiltered(t) ==
    LET parts == split_sentences(t)
        sentences == parts
        num_sentences == Len(sentences)
        words == findall_words(t)
        avg_sentence_length ==
            IF num_sentences # 0 THEN <<Len(words), num_sentences>> ELSE <<0, 1>>
        conjunction_count == sum_counts(lower(t), Len(conjunctions))
        feedback ==
            IF QLt(<<12, 1>>, avg_sentence_length) /\ conjunction_count >= num_sentences
            THEN "Balanced complexity."
            ELSE "Simple or flat sentence structure."
    IN  <<avg_sentence_length, conjunction_count, feedback>>

\* sentence_complexity(text): <<avg_sentence_length, conjunction_count,
\* feedback>>, avg_sentence_length a Q
sentence_complexity(t) ==
    LET parts == split_sentences(t)
        sentences == SelectSeq([i \in DOMAIN parts |-> strip(parts[i])],
                               LAMBDA x : x # <<>>)
        num_sentences == Len(sentences)
        words == findall_words(t)
        avg_sentence_length ==
            IF num_sentences # 0 THEN <<Len(words), num_sentences>> ELSE <<0, 1>>
        conjunction_count == sum_counts(lower(t), Len(conjunctions))
        feedback ==
            IF QLt(<<12, 1>>, avg_sentence_length) /\ conjunction_count >= num_sentences
            THEN "Balanced complexity."
            ELSE "Simple or flat sentence structure."
    IN  <<avg_sentence_length, conjunction_count, feedback>>

(* ------------------------------ inputs --------------------------------- *)

AnalysisResult(d, tw, dur, avg, conj, pol) ==
    [duration |-> dur,
     sentiment |-> [polarity |-> pol],
     lexical |-> [total_words |-> tw, diversity_score |-> d],
     complexity |-> [avg_sentence_length |-> avg, conjunction_count |-> conj]]

\* unique_words / total_words for the small word counts, and the neighbours of
\* the band limits
DivInputs ==
    UNION {{(u * 1000000) \div t : u \in 0..t} : t \in 1..MaxWords}
    \cup {b + j : b \in {400000, 600000, 750000}, j \in (0 - DivNear)..DivNear}

PolInputs ==
    {((200 * k) \div PolGrid) - 100 : k \in 0..PolGrid}
    \cup {b + j : b \in {-50, -30, -10, 30, 50, 70}, j \in (0 - PolNear)..PolNear}

\* <<total_words, duration>>, one pair for each fluency value
FluencySamples == {<<0, 0>>, <<1, 2>>, <<1, 1>>, <<3, 2>>, <<2, 1>>}

\* <<avg_sentence_length, conjunction_count>>, one pair for each complexity value
ComplexitySamples == {<<30, 0>>, <<8, 0>>, <<12, 0>>, <<20, 0>>, <<30, 1>>}

\* one polarity for each emotion value
EmotionSamples == {90, -40, -20, 0}

\* every diversity score with one sample of every value of the other components
Coarse ==
    {AnalysisResult(d, wd[1], wd[2], ac[1], ac[2], p) :
        d \in DivInputs, wd \in FluencySamples,
        ac \in ComplexitySamples, p \in EmotionSamples}

\* the high-quality sample of test_cognitive_scoring with one metric varied
Lines ==
    {AnalysisResult(800000, tw, dur, 30, 3, 20) :
        tw \in 0..MaxWords, dur \in 0..MaxDuration}
    \cup {AnalysisResult(800000, 50, 20, avg, conj, 20) :
        avg \in 0..(2 * MaxAvg), conj \in 0..MaxConj}
    \cup {AnalysisResult(800000, 50, 20, 30, 3, p) : p \in PolInputs}

\* the record of an empty recording
EdgeCase == AnalysisResult(0, 0, 0, 0, 0, 0)

\* the record res without its key k
Without(res, k) == [j \in DOMAIN res \ {k} |-> res[j]]

\* records lacking one of the keys the scoring reads; the keys it does not
\* read are left out of every record
Malformed ==
    {[success |-> TRUE]}
    \cup {Without(r, k) :
            r \in {EdgeCase, AnalysisResult(800000, 50, 20, 30, 3, 20)},
            k \in {"lexical", "complexity", "duration", "sentiment"}}
    \cup {[r EXCEPT ![p[1]] = Without(r[p[1]], p[2])] :
            r \in {EdgeCase, AnalysisResult(800000, 50, 20, 30, 3, 20)},
            p \in {Lookups[i] : i \in DOMAIN Lookups} \ {<<"duration">>}}

Inputs == Coarse \cup Lines \cup {EdgeCase} \cup Malformed

PairDiv == {(k * 1000000) \div PairGrid : k \in 0..PairGrid} \cup {749999}

\* the inputs of two successive analyses
PairInputs ==
    {AnalysisResult(d, wd[1], wd[2], ac[1], ac[2], p) :
        d \in PairDiv, wd \in FluencySamples,
        ac \in {<<30, 0>>, <<8, 0>>, <<30, 1>>}, p \in {-40, 0}}

(* -------------------------- files and calls --------------------------- *)

\* the seconds of the clock that names the recordings
Stamps == 1..MaxStamp

\* the recordings: "A" and "B" decode, "X" does not
Audios == {"A", "B", "X"}

Decodable(content) == content \in {"A", "B"}

\* len(audio) / 1000.0 of a decoded recording, in seconds
Length(content) == IF content = "A" THEN 3 ELSE 75

\* audio.set_frame_rate(16000) exported as wav
Resample(content) == IF content = "A" THEN "A16" ELSE "B16"

\* no file written yet; os.makedirs('recordings', exist_ok=True) has run
EmptyFs ==
    [temp_streamlit |-> None, temp_duration |-> None,
     recordings |-> [ts \in Stamps |-> None], now |-> 1]

Languages == {<<"English (US)", "en-US">>, <<"Japanese", "ja-JP">>}

\* no result: None
NoResults == [none |-> TRUE]

UnknownValueResult ==
    [success |-> FALSE, error |-> "Speech Recognition could not understand audio."]

RequestErrorResult ==
    [success |-> FALSE,
     error |-> "Could not request results from Speech Recognition service"]

OtherErrorResult == [success |-> FALSE, error |-> "An error occurred"]

\* no call of analyze_audio under way
IdleFrame ==
    [pc |-> "idle", audio_bytes |-> None, language |-> None, audio_path |-> 0,
     saved |-> FALSE, audio |-> None, duration |-> 0, audio_data |-> None,
     text |-> <<>>, result |-> NoResults]

\* analyze_audio(audio_bytes, language) entered
Frame(audio_bytes, language) ==
    [IdleFrame EXCEPT !.pc = "save", !.audio_bytes = audio_bytes,
                      !.language = language]

\* the record of a run in which every step succeeded; the measures of the
\* text are held as the text they were taken from
SuccessResult(f) ==
    [success |-> TRUE, transcription |-> f.text, raw_text |-> f.text,
     duration |-> f.duration,
     sentiment |-> [of |-> f.text], lexical |-> [of |-> f.text],
     complexity |-> [of |-> f.text],
     audio_path |-> f.audio_path]

\* an except branch: the result is set and control passes to the finally block
Caught(i, result) ==
    run' = [run EXCEPT ![i].pc = "finally", ![i].result = result]

\* timestamp = datetime.now()...; with open(audio_path, 'wb') as f: f.write(audio_bytes)
Save(i) ==
    /\ UNCHANGED elsewhere
    /\ run[i].pc = "save"
    /\ \E ts \in fs.now..MaxStamp, written \in BOOLEAN :
          IF written
          THEN /\ fs' = [fs EXCEPT !.now = ts,
                                   !.recordings[ts] = run[i].audio_bytes]
               /\ run' = [run EXCEPT ![i].pc = "decode", ![i].audio_path = ts,
                                     ![i].saved = TRUE]
          ELSE /\ fs' = [fs EXCEPT !.now = ts]
               /\ run' = [run EXCEPT ![i].pc = "finally", ![i].audio_path = ts,
                                     ![i].result = OtherErrorResult]

\* audio = AudioSegment.from_file(audio_path); duration = len(audio) / 1000.0
Decode(i) ==
    /\ UNCHANGED elsewhere
    /\ run[i].pc = "decode"
    /\ LET content == fs.recordings[run[i].audio_path]
       IN  IF Decodable(content)
           THEN run' = [run EXCEPT ![i].pc = "export", ![i].audio = content,
                                   ![i].duration = Length(content)]
           ELSE Caught(i, OtherErrorResult)
    /\ UNCHANGED fs

\* audio = audio.set_frame_rate(16000); audio.export(temp_wav_file, format="wav")
Export(i) ==
    /\ UNCHANGED elsewhere
    /\ run[i].pc = "export"
    /\ fs' = [fs EXCEPT !.temp_streamlit = Resample(run[i].audio)]
    /\ run' = [run EXCEPT ![i].pc = "record"]

\* with sr.AudioFile(temp_wav_file) as source: audio_data = recognizer.record(source)
Record(i) ==
    /\ UNCHANGED elsewhere
    /\ run[i].pc = "record"
    /\ IF fs.temp_streamlit = None
       THEN Caught(i, OtherErrorResult)
       ELSE run' = [run EXCEPT ![i].pc = "recognize",
                               ![i].audio_data = fs.temp_streamlit]
    /\ UNCHANGED fs

\* text = recognizer.recognize_google(audio_data, language=language)
Recognize(i) ==
    /\ UNCHANGED elsewhere
    /\ run[i].pc = "recognize"
    /\ \/ run' = [run EXCEPT ![i].pc = "analyse",
                              ![i].text = <<run[i].audio_data, run[i].language>>]
       \/ Caught(i, UnknownValueResult)
       \/ Caught(i, RequestErrorResult)
    /\ UNCHANGED fs

\* format_text, TextBlob, lexical_diversity, sentence_complexity; return {...}
Analyse(i) ==
    /\ UNCHANGED elsewhere
    /\ run[i].pc = "analyse"
    /\ \/ Caught(i, SuccessResult(run[i]))
       \/ Caught(i, OtherErrorResult)
    /\ UNCHANGED fs

\* mutant: the temporary file removed without asking whether it exists
Finally_unguarded(i) ==
    /\ UNCHANGED elsewhere
    /\ run[i].pc = "finally"
    /\ run' = [run EXCEPT ![i].pc = "remove"]
    /\ UNCHANGED fs

\* mutant: the clean-up made only after a successful analysis
Finally_on_success(i) ==
    /\ UNCHANGED elsewhere
    /\ run[i].pc = "finally"
    /\ run' = [run EXCEPT ![i].pc =
                    IF fs.temp_streamlit # None /\ run[i].result.success
                    THEN "remove" ELSE "returned"]
    /\ UNCHANGED fs

\* finally: if os.path.exists(temp_wav_file):
Finally(i) ==
    /\ UNCHANGED elsewhere
    /\ run[i].pc = "finally"
    /\ run' = [run EXCEPT ![i].pc =
                    IF fs.temp_streamlit # None THEN "remove" ELSE "returned"]
    /\ UNCHANGED fs

\* os.remove(temp_wav_file): FileNotFoundError leaves the finally block and
\* the function when the file is gone
Remove(i) ==
    /\ UNCHANGED elsewhere
    /\ run[i].pc = "remove"
    /\ IF fs.temp_streamlit = None
       THEN /\ run' = [run EXCEPT ![i].pc = "raised", ![i].result = NoResults]
            /\ UNCHANGED fs
       ELSE /\ run' = [run EXCEPT ![i].pc = "returned"]
            /\ fs' = [fs EXCEPT !.temp_streamlit = None]

\* get_audio_duration(audio_bytes) on the files: the pairs <<value returned,
\* files left>>; the write can fail, the decoding fails for bytes that are no
\* audio, and os.remove is reached only behind both
get_audio_duration(audio_bytes, files) ==
    {<<0, files>>}
    \cup (IF Decodable(audio_bytes)
          THEN {<<Length(audio_bytes), [files EXCEPT !.temp_duration = None]>>}
          ELSE {<<0, [files EXCEPT !.temp_duration = audio_bytes]>>})

\* one step of the analyze_audio call of session i
AnalyzeStep(i) ==
    \/ Save(i) \/ Decode(i) \/ Export(i) \/ Record(i)
    \/ Recognize(i) \/ Analyse(i) \/ Finally(i) \/ Remove(i)

(* --------------------------- state machine ----------------------------- *)

\* the session before its first rerun
NewSession ==
    [last_audio_bytes |-> None, analysis_results |-> NoResults,
     recording_duration |-> 0, analyzed_audio |-> None]

\* nothing shown yet
NoView ==
    [pc |-> "idle", audio_bytes |-> None, language |-> <<"English (US)", "en-US">>,
     timer |-> 0, report |-> NoResults, error |-> None]

NoLog == [measured |-> [a \in Audios |-> 0], analysed |-> NoResults]

\* the app is not running
NoApp ==
    /\ fs = EmptyFs
    /\ run = <<IdleFrame, IdleFrame>>
    /\ session = NewSession
    /\ view = NoView
    /\ log = NoLog

Init ==
    /\ results \in Inputs
    /\ pc = "ready"
    /\ score = None
    /\ locals = None
    /\ prev = <<>>
    /\ pdf = None
    /\ text = <<>>
    /\ metrics = None
    /\ NoApp

\* the records a call can return now: a float rounds the same way every time,
\* so a record scored before gets the record it got then
returnable(res) ==
    IF prev # <<>> /\ prev[1].results = res
    THEN {prev[1].score} \cap calculate_cognitive_score(res)
    ELSE calculate_cognitive_score(res)

\* the call calculate_cognitive_score(results) made from the frames of stack:
\* it raises the KeyError of a failing lookup or returns a record
Scored(stack) ==
    IF key_error(results) # None
    THEN /\ pc' = "raised"
         /\ score' = [exception |-> "KeyError", key |-> key_error(results),
                       traceback |-> stack]
         /\ locals' = None
    ELSE /\ pc' = "done"
         /\ locals' = score_locals(results)
         /\ score' \in returnable(results)

\* mutant: the recommendations are kept in a list shared by all calls
Calculate_shared ==
    /\ pc = "ready"
    /\ pc' = "done"
    /\ locals' = score_locals(results)
    /\ score' \in
         {[s EXCEPT !.recommendations =
                (IF prev = <<>> THEN <<>> ELSE prev[1].score.recommendations) \o @] :
             s \in calculate_cognitive_score(results)}
    /\ UNCHANGED <<results, prev, pdf, text, metrics>>
    /\ UNCHANGED appvars

\* cognitive_results = calculate_cognitive_score(results)
Calculate ==
    /\ pc = "ready"
    /\ Scored(<<"calculate_cognitive_score">>)
    /\ UNCHANGED <<results, prev, pdf, text, metrics>>
    /\ UNCHANGED appvars

\* mutant: the report is built without the score section when the scoring fails
GeneratePdf_caught ==
    /\ pc = "ready"
    /\ IF key_error(results) # None
       THEN pc' = "done" /\ score' = None /\ locals' = None
       ELSE Scored(<<"generate_pdf_report", "calculate_cognitive_score">>)
    /\ pdf' = "%PDF"
    /\ UNCHANGED <<results, prev, text, metrics>>
    /\ UNCHANGED appvars

\* pdf_data = generate_pdf_report(results, language_name): the record is scored
\* first, and the document is built if that call returns
GeneratePdf ==
    /\ pc = "ready"
    /\ Scored(<<"generate_pdf_report", "calculate_cognitive_score">>)
    /\ pdf' = IF key_error(results) # None THEN pdf ELSE "%PDF"
    /\ UNCHANGED <<results, prev, text, metrics>>
    /\ UNCHANGED appvars

Next == Calculate \/ GeneratePdf

Spec == Init /\ [][Next]_vars

\* two analyses, one after the other: the second call can be compared with the first
InitPair ==
    /\ results \in PairInputs
    /\ pc = "ready"
    /\ score = None
    /\ locals = None
    /\ prev = <<>>
    /\ pdf = None
    /\ text = <<>>
    /\ metrics = None
    /\ NoApp

\* a new recording has been analysed: results = analyze_audio(...)
NextAnalysis ==
    /\ pc = "done"
    /\ prev = <<>>
    /\ \E r \in PairInputs : results' = r
    /\ prev' = <<[results |-> results, score |-> score, locals |-> locals]>>
    /\ pc' = "ready"
    /\ score' = None
    /\ locals' = None
    /\ UNCHANGED <<pdf, text, metrics>>
    /\ UNCHANGED appvars

NextPair == Calculate \/ NextAnalysis

SpecPair == InitPair /\ [][NextPair]_vars

(* ----------------------- measuring a transcription --------------------- *)

\* n times the word "a" and a blank
Filler(n) == [i \in 1..(2 * n) |-> IF i % 2 = 1 THEN "a" ELSE " "]

\* the pieces the texts are made of
Tokens ==
    {<<"a">>, <<"A">>, <<" ">>, <<".">>, <<",">>,
     <<"a", "n", "d", " ">>, <<"f", "o", "r", " ">>,
     Filler(11), Filler(24)}

RECURSIVE Concat(_)
Concat(ts) == IF ts = <<>> THEN <<>> ELSE Head(ts) \o Concat(Tail(ts))

\* the texts of at most MaxTokens pieces
Texts == UNION {{Concat(ts) : ts \in [1..n -> Tokens]} : n \in 0..MaxTokens}

InitText ==
    /\ text \in Texts
    /\ pc = "ready"
    /\ metrics = None
    /\ results = None
    /\ score = None
    /\ locals = None
    /\ prev = <<>>
    /\ pdf = None
    /\ NoApp

\* diversity, total_words, unique_words = lexical_diversity(text)
LexicalDiversity ==
    /\ pc = "ready"
    /\ pc' = "measured"
    /\ metrics' = [lexical |-> lexical_diversity(text)]
    /\ UNCHANGED <<text, results, score, locals, prev, pdf>>
    /\ UNCHANGED appvars

\* avg_len, conj_count, complexity_feedback = sentence_complexity(text)
SentenceComplexity ==
    /\ pc = "measured"
    /\ pc' = "done"
    /\ metrics' = [lexical |-> metrics.lexical,
                   complexity |-> sentence_complexity(text)]
    /\ UNCHANGED <<text, results, score, locals, prev, pdf>>
    /\ UNCHANGED appvars

NextText == LexicalDiversity \/ SentenceComplexity

SpecText == InitText /\ [][NextText]_vars

(* ------------------------- the reruns of a session --------------------- *)

\* what the recorder of the first session can hold
Recorder == {None, "A", "X"}

InitApp ==
    /\ NoApp
    /\ results = None
    /\ pc = "ready"
    /\ score = None
    /\ locals = None
    /\ prev = <<>>
    /\ pdf = None
    /\ text = <<>>
    /\ metrics = None

\* the results part of the page: the report of a successful analysis carries
\* language[0] of this rerun, as PDF or as text when the PDF cannot be built;
\* a failed analysis shows its error
Shown(v, res) ==
    IF "success" \notin DOMAIN res
    THEN {[v EXCEPT !.report = NoResults, !.error = None]}
    ELSE IF res.success
    THEN {[v EXCEPT !.error = None,
                    !.report = [kind |-> k, language |-> v.language[1],
                                transcription |-> res.transcription]] :
            k \in {"pdf", "text"}}
    ELSE {[v EXCEPT !.report = NoResults, !.error = res.error]}

\* a rerun of the script, from the widgets to the analysis block: the recording
\* status block measures a new recording, and the analysis block calls
\* analyze_audio for bytes not yet analysed or shows the stored results
Rerun ==
    /\ view.pc = "idle"
    /\ \E audio_bytes \in Recorder, language \in Languages :
        \E measure \in get_audio_duration(audio_bytes, fs) :
          LET fresh == audio_bytes # None /\ audio_bytes # session.last_audio_bytes
              recording_duration ==
                  IF fresh THEN measure[1]
                  ELSE IF audio_bytes # None THEN session.recording_duration
                  ELSE 0
              timer == IF fresh THEN measure[1]
                       ELSE IF audio_bytes # None /\ session.recording_duration > 0
                       THEN session.recording_duration
                       ELSE -1
              v == [view EXCEPT !.audio_bytes = audio_bytes, !.language = language,
                                !.timer = timer]
          IN  /\ fs' = IF fresh THEN measure[2] ELSE fs
              /\ fresh \/ measure = <<0, fs>>
              /\ log' = IF fresh THEN [log EXCEPT !.measured[audio_bytes] = measure[1]]
                        ELSE log
              /\ session' =
                    [session EXCEPT
                        !.last_audio_bytes = IF fresh THEN audio_bytes ELSE @,
                        !.recording_duration = recording_duration]
              /\ IF audio_bytes # None /\ audio_bytes # session.analyzed_audio
                 THEN /\ run' = [run EXCEPT ![1] = Frame(audio_bytes, language[2])]
                      /\ view' = [v EXCEPT !.pc = "analyzing"]
                 ELSE /\ run' = run
                      /\ view' \in Shown(v, IF audio_bytes # None
                                            THEN session.analysis_results
                                            ELSE NoResults)
    /\ UNCHANGED <<results, pc, score, locals, prev, pdf, text, metrics>>

\* mutant: the results and the bytes stored only when the analysis succeeded
Analysed_on_success ==
    /\ view.pc = "analyzing"
    /\ run[1].pc \in {"returned", "raised"}
    /\ run' = [run EXCEPT ![1] = IdleFrame]
    /\ IF run[1].pc = "returned"
       THEN /\ session' =
                  IF run[1].result.success
                  THEN [session EXCEPT !.analysis_results = run[1].result,
                                       !.analyzed_audio = view.audio_bytes]
                  ELSE session
            /\ log' = [log EXCEPT !.analysed =
                          [audio_bytes |-> run[1].audio_bytes,
                           language |-> run[1].language,
                           result |-> run[1].result]]
            /\ view' \in Shown([view EXCEPT !.pc = "idle"], run[1].result)
       ELSE /\ view' = [view EXCEPT !.pc = "idle", !.report = NoResults,
                                    !.error = "FileNotFoundError"]
            /\ UNCHANGED <<session, log>>
    /\ UNCHANGED <<fs, results, pc, score, locals, prev, pdf, text, metrics>>

\* analyze_audio has returned: the results and the bytes are stored in the
\* session and the results are shown; an exception stops the script
Analysed ==
    /\ view.pc = "analyzing"
    /\ run[1].pc \in {"returned", "raised"}
    /\ run' = [run EXCEPT ![1] = IdleFrame]
    /\ IF run[1].pc = "returned"
       THEN /\ session' = [session EXCEPT !.analysis_results = run[1].result,
                                          !.analyzed_audio = view.audio_bytes]
            /\ log' = [log EXCEPT !.analysed =
                          [audio_bytes |-> run[1].audio_bytes,
                           language |-> run[1].language,
                           result |-> run[1].result]]
            /\ view' \in Shown([view EXCEPT !.pc = "idle"], run[1].result)
       ELSE /\ view' = [view EXCEPT !.pc = "idle", !.report = NoResults,
                                    !.error = "FileNotFoundError"]
            /\ UNCHANGED <<session, log>>
    /\ UNCHANGED <<fs, results, pc, score, locals, prev, pdf, text, metrics>>

NextApp == Rerun \/ Analysed \/ AnalyzeStep(1)

SpecApp == InitApp /\ [][NextApp]_vars

(* ------------------------- two sessions at once ------------------------ *)

Sessions == {1, 2}

\* each of two sessions has just called analyze_audio on its recording
InitSessions ==
    /\ \E a1, a2 \in {"A", "B"}, l1, l2 \in Languages :
          run = <<Frame(a1, l1[2]), Frame(a2, l2[2])>>
    /\ fs = EmptyFs
    /\ session = NewSession
    /\ view = NoView
    /\ log = NoLog
    /\ results = None
    /\ pc = "ready"
    /\ score = None
    /\ locals = None
    /\ prev = <<>>
    /\ pdf = None
    /\ text = <<>>
    /\ metrics = None

NextSessions == \E i \in Sessions : AnalyzeStep(i)

SpecSessions == InitSessions /\ [][NextSessions]_vars

(* ------------------------------ claims --------------------------------- *)

Done == pc = "done"

Paired == pc = "done" /\ prev # <<>>

\* t tenths as a Dec
Tenths(t) == DMul(DInt(t), 100)

\* t tenths is a nearest tenth of the Dec x: |t/10 - x| <= 0.05
NearestTenth(t, x) ==
    /\ DLe(DSub(Tenths(t), x), <<0, 50, 0, 0, 0>>)
    /\ DLe(DSub(x, Tenths(t)), <<0, 50, 0, 0, 0>>)

\* the band of a score given in tenths
BandOf(t) ==
    IF t >= 800 THEN "Low Risk"
    ELSE IF t >= 650 THEN "Low-Moderate Risk"
    ELSE IF t >= 500 THEN "Moderate Risk"
    ELSE "Higher Risk"

\* 0.30*lexical + 0.25*fluency + 0.25*complexity + 0.20*emotion of the
\* component_scores of a returned record, in thousandths
RecordCombination(s) ==
    30 * s.component_scores.lexical_diversity
    + 25 * s.component_scores.speech_fluency
    + 25 * s.component_scores.sentence_complexity
    + 20 * s.component_scores.emotional_expression

\* C1: for every valid analysis record the returned overall_score lies in
\* [0, 100].
C1_OverallScoreInRange ==
    Done => (0 <= score.overall_score /\ score.overall_score <= 1000)

\* the weighted sum exceeds 100 before rounding and 100.0 is returned
C1_Witness ==
    /\ Done
    /\ DLt(DInt(100), locals.overall_score)
    /\ score.overall_score = 1000

\* C2: the returned risk_level is the band of the returned overall_score
\* (>= 80 Low, >= 65 Low-Moderate, >= 50 Moderate, else Higher).
C2_RiskLevelIsBandOfReturnedScore ==
    Done => score.risk_level = BandOf(score.overall_score)

\* C3: the returned overall_score is 0.30*lexical + 0.25*fluency +
\* 0.25*complexity + 0.20*emotion of the component scores before they are
\* rounded, rounded to one decimal.
C3_OverallIsRoundedWeightedSum ==
    Done =>
        NearestTenth(score.overall_score,
            DAdd(DAdd(DMul(locals.diversity_component, 300),
                      DMul(DInt(locals.fluency_component + locals.complexity_component), 250)),
                 DMul(DInt(locals.emotion_component), 200)))

\* both the lexical component and the weighted sum are changed by their rounding
C3_Witness ==
    /\ Done
    /\ locals.diversity_component # Tenths(score.component_scores.lexical_diversity)
    /\ locals.overall_score # Tenths(score.overall_score)

\* C4 as stated: the overall_score field equals the weighted combination of
\* the record's own component_scores, rounded to one decimal.
C4_OverallIsCombinationOfRecord ==
    Done =>
        /\ 100 * score.overall_score - RecordCombination(score) <= 50
        /\ RecordCombination(score) - 100 * score.overall_score <= 50

\* C4 amended: the overall_score field is within 0.065 of the weighted
\* combination of the record's own component_scores (0.05 from its own
\* rounding and 0.30 * 0.05 from the rounding of lexical_diversity).
C4_OverallNearCombinationOfRecord ==
    Done =>
        /\ 100 * score.overall_score - RecordCombination(score) <= 65
        /\ RecordCombination(score) - 100 * score.overall_score <= 65

\* the combination of the record's components rounds to another tenth
C4_Witness ==
    /\ Done
    /\ 100 * score.overall_score - RecordCombination(score) > 50

\* C5: when two inputs agree on three component scores and the fourth is
\* higher in the second, the second overall_score is >= the first.
C5_OverallMonotoneInEachComponent ==
    Paired =>
        LET a == prev[1].locals
            b == locals
            sameL == a.diversity_component = b.diversity_component
            sameF == a.fluency_component = b.fluency_component
            sameC == a.complexity_component = b.complexity_component
            sameE == a.emotion_component = b.emotion_component
            higher ==
                \/ sameF /\ sameC /\ sameE
                   /\ DLt(a.diversity_component, b.diversity_component)
                \/ sameL /\ sameC /\ sameE
                   /\ a.fluency_component < b.fluency_component
                \/ sameL /\ sameF /\ sameE
                   /\ a.complexity_component < b.complexity_component
                \/ sameL /\ sameF /\ sameC
                   /\ a.emotion_component < b.emotion_component
        IN  higher => score.overall_score >= prev[1].score.overall_score

\* only the lexical component is higher in the second call, by so little that
\* the two returned scores are equal
C5_Witness ==
    /\ Paired
    /\ prev[1].locals.fluency_component = locals.fluency_component
    /\ prev[1].locals.complexity_component = locals.complexity_component
    /\ prev[1].locals.emotion_component = locals.emotion_component
    /\ DLt(prev[1].locals.diversity_component, locals.diversity_component)
    /\ score.overall_score = prev[1].score.overall_score

\* C6 as stated: the lexical component follows the band table (>= 0.75 gives
\* 100; [0.6, 0.75) lies in [60, 100] with 60 at 0.6; [0.4, 0.6) is
\* 30 + (d - 0.4) * 150 in [30, 60]; below 0.4 it is d * 75 >= 0) and always
\* lies in [0, 100].
C6_LexicalBands ==
    Done =>
        LET d == results.lexical.diversity_score
            c == locals.diversity_component
        IN  /\ d >= 750000 => c = DInt(100)
            /\ (600000 <= d /\ d < 750000) =>
                    DLe(DInt(60), c) /\ DLe(c, DInt(100))
            /\ d = 600000 => c = DInt(60)
            /\ (400000 <= d /\ d < 600000) =>
                    /\ c = DAdd(DInt(30), DMicro(150 * (d - 400000)))
                    /\ DLe(DInt(30), c) /\ DLe(c, DInt(60))
            /\ d < 400000 => c = DMicro(75 * d) /\ DLe(DInt(0), c)
            /\ DLe(DInt(0), c) /\ DLe(c, DInt(100))

\* C7: the fluency component is given by the band of words_per_second =
\* total_words / duration (0 if duration = 0), and every value falls in
\* exactly one band.
C7_FluencyBands ==
    Done =>
        LET w == IF results.duration > 0 THEN results.lexical.total_words ELSE 0
            t == IF results.duration > 0 THEN results.duration ELSE 1
            f == locals.fluency_component
            b100 == 2 * t <= w /\ w <= 3 * t
            b80 == (3 * t <= 2 * w /\ w < 2 * t) \/ (3 * t < w /\ 2 * w <= 7 * t)
            b60 == (t <= w /\ 2 * w < 3 * t) \/ (7 * t < 2 * w /\ w <= 4 * t)
            b40 == (t <= 2 * w /\ w < t) \/ (4 * t < w /\ w <= 5 * t)
            b20 == 2 * w < t \/ 5 * t < w
        IN  /\ b100 => f = 100
            /\ b80 => f = 80
            /\ b60 => f = 60
            /\ b40 => f = 40
            /\ b20 => f = 20
            /\ Cardinality({k \in 1..5 : <<b100, b80, b60, b40, b20>>[k]}) = 1
            /\ score.component_scores.speech_fluency = 10 * f

\* 3.5 words per second, the closed end of the upper 80 band
C7_Witness ==
    /\ Done
    /\ results.lexical.total_words = 7
    /\ results.duration = 2
    /\ locals.fluency_component = 80

\* C8: the complexity component follows the band table of
\* (avg_sentence_length, conjunction_count); avg in [12, 20] without a
\* conjunction and avg below 4 give 20.
C8_ComplexityBands ==
    Done =>
        LET a == results.complexity.avg_sentence_length
            n == results.complexity.conjunction_count
            c == locals.complexity_component
        IN  /\ (24 <= a /\ a <= 40 /\ n >= 1) => c = 100
            /\ ((16 <= a /\ a < 24) \/ (40 < a /\ a <= 50)) => c = 80
            /\ ((12 <= a /\ a < 16) \/ (50 < a /\ a <= 60)) => c = 60
            /\ ((8 <= a /\ a < 12) \/ 60 < a) => c = 40
            /\ (a < 8 \/ (24 <= a /\ a <= 40 /\ n = 0)) => c = 20
            /\ score.component_scores.sentence_complexity = 10 * c

\* an average of 15 words without any conjunction
C8_Witness ==
    /\ Done
    /\ results.complexity.avg_sentence_length = 30
    /\ results.complexity.conjunction_count = 0
    /\ locals.complexity_component = 20

\* C9: the emotion component follows the band table of polarity and is never
\* below 40.
C9_EmotionBands ==
    Done =>
        LET p == results.sentiment.polarity
            e == locals.emotion_component
        IN  /\ (-10 <= p /\ p <= 30) => e = 100
            /\ ((-30 <= p /\ p < -10) \/ (30 < p /\ p <= 50)) => e = 80
            /\ ((-50 <= p /\ p < -30) \/ (50 < p /\ p <= 70)) => e = 60
            /\ (p < -50 \/ 70 < p) => e = 40
            /\ e >= 40
            /\ score.component_scores.emotional_expression = 10 * e

\* polarity just outside the last 60 band
C9_Witness ==
    /\ Done
    /\ results.sentiment.polarity = 71
    /\ locals.emotion_component = 40

\* C10: cognitive_age is max(20, 35 + (85 - overall_score) * 0.3), here written
\* max(20, 60.5 - 0.3 * overall_score), rounded to one decimal, overall_score
\* being the weighted sum as the function holds it; it is at least 20 and does
\* not increase when the overall_score, returned or not yet rounded, increases.
C10_CognitiveAge ==
    /\ Done =>
        /\ NearestTenth(score.cognitive_age,
                DMax(DInt(20),
                     DSub(<<60, 500, 0, 0, 0>>, DMul(locals.overall_score, 300))))
        /\ score.cognitive_age >= 200
    /\ Paired =>
        /\ score.overall_score > prev[1].score.overall_score
            => score.cognitive_age <= prev[1].score.cognitive_age
        /\ DLt(prev[1].locals.overall_score, locals.overall_score)
            => score.cognitive_age <= prev[1].score.cognitive_age

\* the second call returns a higher score and a lower age
C10_Witness ==
    /\ Paired
    /\ score.overall_score > prev[1].score.overall_score
    /\ score.cognitive_age < prev[1].score.cognitive_age


\* the place of a recommendation text in the fixed order
TipRank(tip) ==
    CASE tip = "Expand vocabulary" -> 1
      [] tip = "Practice speaking exercises" -> 2
      [] tip = "Practice paced speaking" -> 2
      [] tip = "Practice varied sentence structures" -> 3
      [] tip = "Promote emotional well-being" -> 4
      [] OTHER -> 5

\* the texts of a recommendations list
Tips(r) == {r[i] : i \in DOMAIN r}

\* C11: the recommendations hold exactly one tip for each component below 70
\* and none for a component at 70 or more, in the order lexical, fluency,
\* complexity, emotion; the fluency tip is 'Practice speaking exercises' when
\* words_per_second < 1.5 and 'Practice paced speaking' otherwise.
C11_OneTipPerLowComponent ==
    Done =>
        LET r == score.recommendations
            slow == results.duration = 0
                    \/ 2 * results.lexical.total_words < 3 * results.duration
        IN  /\ "Expand vocabulary" \in Tips(r)
                    <=> DLt(locals.diversity_component, DInt(70))
            /\ "Practice speaking exercises" \in Tips(r)
                    <=> (locals.fluency_component < 70 /\ slow)
            /\ "Practice paced speaking" \in Tips(r)
                    <=> (locals.fluency_component < 70 /\ ~slow)
            /\ "Practice varied sentence structures" \in Tips(r)
                    <=> locals.complexity_component < 70
            /\ "Promote emotional well-being" \in Tips(r)
                    <=> locals.emotion_component < 70
            /\ \A i, j \in DOMAIN r : i < j => TipRank(r[i]) < TipRank(r[j])

\* all four components are below 70 and the four tips come in the fixed order
C11_Witness ==
    /\ Done
    /\ score.recommendations =
            <<"Expand vocabulary", "Practice speaking exercises",
              "Practice varied sentence structures", "Promote emotional well-being">>

\* C12: the recommendations list is never empty and has at most four entries;
\* it is the single affirmation exactly when all four components are >= 70,
\* and the affirmation never stands beside a tip.
C12_AffirmationOrTips ==
    Done =>
        LET r == score.recommendations
            allGood == /\ DLe(DInt(70), locals.diversity_component)
                       /\ locals.fluency_component >= 70
                       /\ locals.complexity_component >= 70
                       /\ locals.emotion_component >= 70
        IN  /\ 1 <= Len(r) /\ Len(r) <= 4
            /\ r = <<"Excellent results">> <=> allGood
            /\ "Excellent results" \in Tips(r) => Len(r) = 1

\* every component is at least 70 and the list is the affirmation alone
C12_Witness ==
    /\ Done
    /\ locals.fluency_component >= 70
    /\ locals.complexity_component >= 70
    /\ locals.emotion_component >= 70
    /\ DLe(DInt(70), locals.diversity_component)
    /\ score.recommendations = <<"Excellent results">>


\* every lookup of the scoring finds its key
WellFormed(res) == \A i \in DOMAIN Lookups : Found(res, Lookups[i])

\* C13: for every input with duration = 0, whatever total_words is and for the
\* all-zero record too, calculate_cognitive_score raises no error, reports
\* words_per_second = 0 and gives the fluency component 20.
C13_ZeroDuration ==
    (pc # "ready" /\ WellFormed(results) /\ results.duration = 0) =>
        /\ pc = "done"
        /\ locals.words_per_second[1] = 0
        /\ score.words_per_second = 0
        /\ locals.fluency_component = 20
        /\ score.component_scores.speech_fluency = 200

\* words were counted in a recording without duration
C13_Witness ==
    /\ Done
    /\ results.duration = 0
    /\ results.lexical.total_words = MaxWords
    /\ score.words_per_second = 0

\* C14: when the record lacks a key the scoring reads, calculate_cognitive_score
\* and generate_pdf_report, which calls it first, raise a KeyError to the
\* caller: no score and no PDF is returned and no default is substituted.
C14_MissingKeyRaises ==
    (pc # "ready" /\ ~WellFormed(results)) =>
        /\ pc = "raised"
        /\ score.exception = "KeyError"
        /\ score.key \in {"lexical", "complexity", "duration", "sentiment",
                          "diversity_score", "total_words",
                          "avg_sentence_length", "conjunction_count", "polarity"}
        /\ score.key \notin DOMAIN results
        /\ pdf = None

\* the report was asked for a record holding nothing but success
C14_Witness ==
    /\ pc = "raised"
    /\ DOMAIN results = {"success"}
    /\ score.traceback = <<"generate_pdf_report", "calculate_cognitive_score">>
    /\ score.key = "lexical"


Measured == pc \in {"measured", "done"}

\* the words of a text: each the positions of its first character (a word
\* character not preceded by one) and of its last (not followed by one)
WordSpans(t) ==
    LET first == {i \in DOMAIN t :
                     t[i] \in WordChars /\ (i = 1 \/ t[i - 1] \notin WordChars)}
        last == {j \in DOMAIN t :
                    t[j] \in WordChars /\ (j = Len(t) \/ t[j + 1] \notin WordChars)}
    IN  {<<i, CHOOSE j \in last : j >= i /\ \A e \in last : e >= i => j <= e>> :
            i \in first}

\* the text with every letter of a word in capitals
upper(t) ==
    [i \in DOMAIN t |->
        IF \E k \in DOMAIN Small : Small[k] = t[i]
        THEN Capital[CHOOSE k \in DOMAIN Small : Small[k] = t[i]]
        ELSE t[i]]

\* C16: lexical_diversity returns (score, total_words, unique_words) with
\* 0 <= unique_words <= total_words, score = unique_words / total_words in
\* [0, 1] when total_words > 0, score = 1 exactly when all words are distinct,
\* and (0, 0, 0) when the text has no words.
C16_LexicalDiversityInvariants ==
    Measured =>
        LET ratio == metrics.lexical[1]
            total == metrics.lexical[2]
            unique == metrics.lexical[3]
            spans == WordSpans(lower(text))
            word(p) == SubSeq(lower(text), p[1], p[2])
            distinct == \A p, q \in spans : p # q => word(p) # word(q)
        IN  /\ total = Cardinality(spans)
            /\ 0 <= unique /\ unique <= total
            /\ total > 0 =>
                    /\ ratio[1] * total = unique * ratio[2]
                    /\ QLe(<<0, 1>>, ratio) /\ QLe(ratio, <<1, 1>>)
                    /\ (ratio[1] = ratio[2]) <=> distinct
            /\ total = 0 => (ratio[1] = 0 /\ unique = 0)

\* a word is repeated: the score is below 1
C16_Witness ==
    /\ Measured
    /\ metrics.lexical[2] = 3
    /\ metrics.lexical[3] = 2

\* C17: lexical_diversity counts words case-insensitively: texts differing
\* only in the letter case of their words give the same triple, and words
\* differing only in case count as one unique word.
C17_CaseInsensitive ==
    Measured =>
        LET kept == findall_words(text)
        IN  /\ lexical_diversity(upper(text)) = metrics.lexical
            /\ lexical_diversity(lower(text)) = metrics.lexical
            /\ metrics.lexical[3] =
                    Cardinality({lower(kept[i]) : i \in DOMAIN kept})

\* the words "A" and "a" are the only words of the text
C17_Witness ==
    /\ Measured
    /\ text # lower(text)
    /\ text # upper(text)
    /\ metrics.lexical[2] = 2
    /\ metrics.lexical[3] = 1


\* the segments of a text that hold more than whitespace: each is given by its
\* first inked character, one that no inked character precedes since the last
\* terminator
SegmentOpeners(t) ==
    {i \in DOMAIN t :
        /\ t[i] \notin Whitespace \cup Terminators
        /\ \A j \in 1..(i - 1) :
              t[j] \in Whitespace
              \/ \E k \in j..(i - 1) : t[k] \in Terminators}

\* C18: sentence_complexity returns avg_sentence_length = (number of words of
\* the text) / (number of non-empty segments between '.', '!' and '?'), and
\* avg_sentence_length = 0, conjunction_count = 0 and the warning feedback
\* when the text is empty or has no non-empty segment.
C18_AverageSentenceLength ==
    Done =>
        LET avg == metrics.complexity[1]
            n == Cardinality(SegmentOpeners(text))
            w == Cardinality(WordSpans(text))
        IN  /\ n > 0 => avg[1] * n = w * avg[2]
            /\ n = 0 =>
                    /\ avg[1] = 0
                    /\ metrics.complexity[2] = 0
                    /\ metrics.complexity[3] = "Simple or flat sentence structure."

\* one sentence of one word, then a terminator and a blank: the segment behind
\* the terminator is not counted
C18_Witness ==
    /\ Done
    /\ Len(text) = 3
    /\ text[2] = "."
    /\ text[3] = " "
    /\ metrics.complexity[1] = <<1, 1>>

\* C19 as stated: the feedback is the positive one whenever
\* avg_sentence_length > 12 and conjunction_count >= 1, and the warning in
\* every other case.
C19_PositiveFeedback ==
    Done =>
        (metrics.complexity[3] = "Balanced complexity."
            <=> (QLt(<<12, 1>>, metrics.complexity[1]) /\ metrics.complexity[2] >= 1))

\* the word occurrences of a text that are one of the ten conjunctions
ConjunctionWords(t) ==
    {p \in WordSpans(t) :
        \E k \in DOMAIN conjunctions : SubSeq(lower(t), p[1], p[2]) = conjunctions[k]}

\* C20 as stated: conjunction_count is the number of words of the text that
\* are one of the ten conjunctions, 0 for a text with none of them, each
\* occurrence counted once.
C20_ConjunctionWordCount ==
    Done => metrics.complexity[2] = Cardinality(ConjunctionWords(text))


\* C25 as stated: for a fixed conjunction_count, an input whose
\* avg_sentence_length lies in [12, 20] never receives a lower complexity
\* component than an input whose avg_sentence_length lies outside it.
C25_OptimalLengthNeverLower ==
    Paired =>
        LET inside == 24 <= results.complexity.avg_sentence_length
                      /\ results.complexity.avg_sentence_length <= 40
            outside == prev[1].results.complexity.avg_sentence_length < 24
                       \/ prev[1].results.complexity.avg_sentence_length > 40
            same == results.complexity.conjunction_count
                        = prev[1].results.complexity.conjunction_count
        IN  (inside /\ outside /\ same)
                => locals.complexity_component >= prev[1].locals.complexity_component

\* C26 as stated: the banner picked from the returned overall_score always
\* goes with the risk_level and risk_description shown with it: success only
\* with 'Low Risk', info only with 'Low-Moderate Risk', warning only with
\* 'Moderate Risk', error only with 'Higher Risk'.
C26_BannerMatchesRiskLevel ==
    Done =>
        LET banner == risk_banner(score.overall_score)
        IN  /\ banner = "success" =>
                    /\ score.risk_level = "Low Risk"
                    /\ score.risk_description = "Excellent cognitive health indicators"
            /\ banner = "info" =>
                    /\ score.risk_level = "Low-Moderate Risk"
                    /\ score.risk_description
                          = "Good cognitive health with minor areas for attention"
            /\ banner = "warning" =>
                    /\ score.risk_level = "Moderate Risk"
                    /\ score.risk_description = "Some cognitive health concerns detected"
            /\ banner = "error" =>
                    /\ score.risk_level = "Higher Risk"
                    /\ score.risk_description
                          = "Multiple cognitive health indicators suggest consultation recommended"

\* C30: the overall_score before rounding is at least 18, the returned
\* cognitive_age lies in [30.5, 55.1], and the floor at 20 of the age formula
\* is never the value that determines the result.
C30_AgeRange ==
    Done =>
        /\ DLe(DInt(18), locals.overall_score)
        /\ 305 <= score.cognitive_age /\ score.cognitive_age <= 551
        /\ DLt(DInt(20), locals.estimated_cognitive_age)
        /\ locals.estimated_cognitive_age
              = DAdd(DInt(35), DMul(DSub(DInt(85), locals.overall_score), 300))

\* every component at its minimum: the score is 18 and the age 55.1
C30_Witness ==
    /\ Done
    /\ locals.overall_score = DInt(18)
    /\ score.cognitive_age = 551


\* C29 as stated: two analyze_audio calls running in different sessions do
\* not interfere: under every interleaving each call reads the recording it
\* wrote, transcribes the audio it was given and returns the result for its
\* own audio.
C29_SessionsDoNotInterfere ==
    \A i \in Sessions :
        LET f == run[i]
        IN  /\ f.pc # "raised"
            /\ f.audio # None => f.audio = f.audio_bytes
            /\ f.audio_data # None => f.audio_data = Resample(f.audio_bytes)
            /\ (f.pc = "returned" /\ f.result.success) =>
                    /\ f.result.transcription
                          = <<Resample(f.audio_bytes), f.language>>
                    /\ f.result.duration = Length(f.audio_bytes)
                    /\ fs.recordings[f.result.audio_path] = f.audio_bytes


\* the script of the first session has run to its end
Idle == view.pc = "idle"

\* the name the language box shows for a language code
LanguageName(code) == (CHOOSE l \in Languages : l[2] = code)[1]

\* C21: analyze_audio is invoked only when the current audio_bytes differ from
\* the bytes analysed last; whenever analyzed_audio is set, analysis_results
\* is the result of the one analysis run for exactly those bytes; an error
\* result is shown again on a rerun with the same bytes, without a new call.
C21_AnalysedOncePerRecording ==
    /\ [](Idle =>
            /\ session.analyzed_audio # None =>
                  /\ log.analysed.audio_bytes = session.analyzed_audio
                  /\ session.analysis_results = log.analysed.result
            /\ (view.audio_bytes # None /\ "audio_bytes" \in DOMAIN log.analysed
                 /\ view.audio_bytes = log.analysed.audio_bytes
                 /\ ~log.analysed.result.success)
                  => view.error = log.analysed.result.error)
    /\ [][(run[1].pc = "idle" /\ run[1]'.pc # "idle") =>
              /\ view'.audio_bytes # session.analyzed_audio
              /\ "audio_bytes" \in DOMAIN log.analysed
                    => view'.audio_bytes # log.analysed.audio_bytes]_vars

\* the recording that failed to decode is on the page again, with its error
\* and without a call under way
C21_Witness ==
    /\ Idle
    /\ view.audio_bytes = "X"
    /\ session.analyzed_audio = "X"
    /\ view.error = "An error occurred"
    /\ view.timer = -1
    /\ run[1].pc = "idle"

C24_DurationTempRemoved ==
    /\ fs.temp_duration = None
    /\ \A a \in Audios : log.measured[a] \in {0, Length(a)}

\* C27 as stated: whenever audio_bytes is present and equal to
\* last_audio_bytes, recording_duration is the duration measured for those
\* bytes.
C27_DurationOfShownRecording ==
    (Idle /\ view.audio_bytes # None
        /\ view.audio_bytes = session.last_audio_bytes)
        => session.recording_duration = log.measured[view.audio_bytes]

\* C28 as stated: the language named in the report is the language
\* analyze_audio was called with for the transcription in that report.
C28_ReportLanguage ==
    (Idle /\ "language" \in DOMAIN view.report)
        => view.report.language = LanguageName(view.report.transcription[2])

====
